---- MODULE Spec2Model ----
(***************************************************************************)
(* Model of the digital-transformation index query application            *)
(* (src/text/2.py): a Streamlit script whose main() is re-run on every    *)
(* user interaction, on top of one cached load_and_calculate_index().     *)
(*                                                                         *)
(* Conventions of the model                                                *)
(*  - a string is a sequence of characters; a Chinese character is one    *)
(*    character, written as its pinyin ("yin","hang" is the word for      *)
(*    bank); the industry labels are written in English;                  *)
(*  - the index is kept in hundredths (730 stands for 7.30), the weights  *)
(*    of TECH_WEIGHTS are therefore 30, 10, 25, 15, 20;                    *)
(*  - a DataFrame is a record of its columns and its rows; a filtered     *)
(*    view is the sequence of the index labels (1..n) of the rows kept.   *)
(***************************************************************************)
EXTENDS Integers, Sequences, FiniteSets, TLC

VARIABLES
  disk,       \* the spreadsheet, and whether it is at DEFAULT_FILE_PATH
  cache,      \* the entry of st.cache_data for load_and_calculate_index
  loads,      \* how many times the body of load_and_calculate_index has run
  widgets,    \* the session's widget values
  outcome,    \* how the last run of main() ended
  filtered,   \* filtered_df of the last run
  top10,      \* top10_df of the last run
  rendered,   \* the elements the last run put on the page
  firstView   \* history: the widget values and filtered_df of the first
              \* run that got as far as filtered_df

vars ==
  <<disk, cache, loads, widgets, outcome, filtered, top10, rendered, firstView>>

----------------------------------------------------------------------------
(* Bounds of the model *)

MaxNameLen == 3     \* generated company names have 1..MaxNameLen characters
MaxFreq == 1        \* generated frequency counts are 0..MaxFreq
MaxRows == 2        \* generated small files have 0..MaxRows rows
BigExtra == 2       \* the large sheets have TopN..TopN+BigExtra rows
StopsPerEnd == 2    \* slider stops offered from each end of the index range

----------------------------------------------------------------------------
(* Configuration of the program *)

Other == "Other"

INDUSTRY_MAPPING ==
  << [industry |-> "Finance",
      keywords |-> << <<"yin","hang">>, <<"bao","xian">>, <<"zheng","quan">>,
                      <<"jin","rong">>, <<"ji_base","jin">>,
                      <<"tou","zi_capital">>, <<"xin","tuo">> >>],
     [industry |-> "RealEstate",
      keywords |-> << <<"di","chan">>, <<"zhi_place","ye">>, <<"fang","chan">>,
                      <<"wu","ye">>, <<"fang","di","chan">> >>],
     [industry |-> "Manufacturing",
      keywords |-> << <<"zhi","zao">>, <<"gong","ye">>, <<"ke","ji">>,
                      <<"dian","zi">>, <<"ji_machine","xie">>,
                      <<"she","bei">>, <<"qi_steam","che">> >>],
     [industry |-> "Transportation",
      keywords |-> << <<"hang_sail","kong">>, <<"tie","lu">>, <<"wu","liu">>,
                      <<"gang","kou">>, <<"yun","shu_carry">>,
                      <<"jiao","tong">>, <<"hang_sail","yun">> >>],
     [industry |-> "Energy",
      keywords |-> << <<"dian","li">>, <<"shi","you">>, <<"mei_coal","tan">>,
                      <<"neng","yuan">>, <<"ran","qi">>,
                      <<"xin_new","neng","yuan">> >>],
     [industry |-> "InformationTechnology",
      keywords |-> << <<"xin","xi">>, <<"ji","shu">>, <<"ruan","jian">>,
                      <<"hu","lian","wang">>, <<"ji_count","suan","ji_machine">>,
                      <<"tong","xin">> >>],
     [industry |-> "Healthcare",
      keywords |-> << <<"yi","liao">>, <<"yi","yao">>, <<"jian_health","kang">>,
                      <<"sheng","wu">>, <<"zhi","yao">> >>],
     [industry |-> "Consumer",
      keywords |-> << <<"ling","shou">>, <<"shi_food","pin">>,
                      <<"yin_drink","liao_material">>, <<"xiao","fei">>,
                      <<"jia","dian">>, <<"fu","zhuang">> >>],
     [industry |-> "Education",
      keywords |-> << <<"jiao_teach","yu">>, <<"pei","xun">>,
                      <<"xue","xiao_school">> >>],
     [industry |-> "Media",
      keywords |-> << <<"chuan","mei">>, <<"guang","gao">>, <<"yu_fun","le">>,
                      <<"ying","shi_view">>, <<"chu","ban">> >>] >>

\* The technology columns, in the order of the TECH_WEIGHTS dictionary.
Techs == <<"AI", "Blockchain", "BigData", "Cloud", "DigitalApplication">>

\* TECH_WEIGHTS, in hundredths.
TECH_WEIGHTS ==
  [AI |-> 30, Blockchain |-> 10, BigData |-> 25, Cloud |-> 15,
   DigitalApplication |-> 20]

\* head(10) of the ranked table.
TopN == 10

\* The columns of the spreadsheet.
CodeCol == "stock_code"
NameCol == "company_name"
TotalCol == "total_word_count"
IndexCol == "digitalization_index"
IndustryCol == "industry"
FileColumns == {CodeCol, NameCol, TotalCol} \cup {Techs[i] : i \in 1..Len(Techs)}

----------------------------------------------------------------------------
(* Strings and regular expressions (pandas str.contains, regex=True)       *)

\* re.IGNORECASE folds the case of a letter; the other characters have none.
Lower(c) == IF c = "A" THEN "a" ELSE c

\* '|'.join(keywords)
RECURSIVE Join(_)
Join(words) ==
  IF Len(words) = 0 THEN <<>>
  ELSE IF Len(words) = 1 THEN words[1]
  ELSE words[1] \o <<"|">> \o Join(Tail(words))

\* The alternatives of a pattern: the pieces between the '|' characters.
RECURSIVE Alternatives(_)
Alternatives(pat) ==
  IF \A i \in 1..Len(pat) : pat[i] # "|" THEN {pat}
  ELSE LET k == CHOOSE i \in 1..Len(pat) :
                  pat[i] = "|" /\ \A j \in 1..(i-1) : pat[j] # "|"
       IN {SubSeq(pat, 1, k-1)} \cup Alternatives(SubSeq(pat, k+1, Len(pat)))

\* re.compile raises on a pattern with an unbalanced parenthesis.
RegexValid(pat) == \A i \in 1..Len(pat) : pat[i] # "("

\* One pattern character against one text character.
AtomMatches(p, c) == p = "." \/ Lower(p) = Lower(c)

\* One alternative found somewhere in the text.
AltFound(alt, text) ==
  \E off \in 0..(Len(text) - Len(alt)) :
     \A i \in 1..Len(alt) : AtomMatches(alt[i], text[off + i])

\* Series.str.contains(pat, case=False) for one cell (pat a valid regex).
StrContains(text, pat) == \E alt \in Alternatives(pat) : AltFound(alt, text)

----------------------------------------------------------------------------
(* load_and_calculate_index: the index and the industry                    *)

\* sum(row[tech] * weight for tech, weight in TECH_WEIGHTS.items())
RECURSIVE WeightedSum(_, _)
WeightedSum(row, k) ==
  IF k = 0 THEN 0
  ELSE WeightedSum(row, k - 1) + row[Techs[k]] * TECH_WEIGHTS[Techs[k]]

\* Mutant of RowIndex: the five counts with equal weights.
RowIndexEqualWeights(row) ==
  20 * (row["AI"] + row["Blockchain"] + row["BigData"] + row["Cloud"]
        + row["DigitalApplication"])

RowIndex(row) == WeightedSum(row, Len(Techs))

\* Mutant of LabelsAfter: a row that has a label keeps it (first match wins).
RECURSIVE LabelsAfterFirstWins(_, _)
LabelsAfterFirstWins(names, k) ==
  IF k = 0 THEN [i \in 1..Len(names) |-> Other]
  ELSE LET before == LabelsAfterFirstWins(names, k - 1)
           pattern == Join(INDUSTRY_MAPPING[k].keywords)
       IN [i \in 1..Len(names) |->
             IF before[i] = Other /\ StrContains(names[i], pattern)
               THEN INDUSTRY_MAPPING[k].industry
               ELSE before[i]]

\* The label column after the first k iterations of the loop over
\* INDUSTRY_MAPPING: every matching row is overwritten at each iteration.
RECURSIVE LabelsAfter(_, _)
LabelsAfter(names, k) ==
  IF k = 0 THEN [i \in 1..Len(names) |-> Other]
  ELSE LET before == LabelsAfter(names, k - 1)
           pattern == Join(INDUSTRY_MAPPING[k].keywords)
       IN [i \in 1..Len(names) |->
             IF StrContains(names[i], pattern)
               THEN INDUSTRY_MAPPING[k].industry
               ELSE before[i]]

Classify(names) == LabelsAfter(names, Len(INDUSTRY_MAPPING))


\* pd.DataFrame(): no columns, no rows.
EmptyDataFrame == [columns |-> {}, rows |-> <<>>]

\* DataFrame.empty: some axis has length 0.
IsEmpty(df) == df.columns = {} \/ Len(df.rows) = 0

\* The body of the try block: read_excel, the index column, the industry
\* column.  It raises when the file cannot be read, when a row is asked for
\* a technology column or the name column the sheet does not have, and, on
\* a sheet without rows, when apply() hands back a frame instead of a column.
Raises(file) ==
  \/ ~file.readable
  \/ Len(file.rows) = 0
  \/ \E k \in 1..Len(Techs) : Techs[k] \notin file.columns
  \/ NameCol \notin file.columns

Enriched(file) ==
  LET labels == Classify([i \in 1..Len(file.rows) |-> file.rows[i][NameCol]])
  IN [columns |-> file.columns \cup {IndexCol, IndustryCol},
      rows |-> [i \in 1..Len(file.rows) |->
                  [c \in file.columns \cup {IndexCol, IndustryCol} |->
                     IF c = IndexCol THEN RowIndex(file.rows[i])
                     ELSE IF c = IndustryCol THEN labels[i]
                     ELSE file.rows[i][c]]]]

\* The function body: what it returns and the message it shows.
load_and_calculate_index(d) ==
  IF ~d.present THEN [df |-> EmptyDataFrame, message |-> "error_missing"]
  ELSE IF Raises(d.file) THEN [df |-> EmptyDataFrame, message |-> "error_failed"]
  ELSE [df |-> Enriched(d.file), message |-> "success"]

\* Mutant of CachedCall: a failed load is not kept, the body runs again.
CachedCallRetriesFailure(c, d) ==
  IF c.loaded /\ c.message = "success" THEN [entry |-> c, ran |-> FALSE]
  ELSE LET r == load_and_calculate_index(d)
       IN [entry |-> [loaded |-> TRUE, df |-> r.df, message |-> r.message],
           ran |-> TRUE]

\* @st.cache_data: the body runs when there is no cached entry, and its
\* return value and messages are stored; a cached entry is replayed.
CachedCall(c, d) ==
  IF c.loaded THEN [entry |-> c, ran |-> FALSE]
  ELSE LET r == load_and_calculate_index(d)
       IN [entry |-> [loaded |-> TRUE, df |-> r.df, message |-> r.message],
           ran |-> TRUE]


----------------------------------------------------------------------------
(* main: the widgets, the filter and the three outputs                     *)

Labels(df) == 1..Len(df.rows)

IndexOf(df, i) == df.rows[i][IndexCol]

\* df['industry'].unique(): the options of the multiselect.
Industries(df) == {df.rows[i][IndustryCol] : i \in Labels(df)}

IndexValues(df) == {IndexOf(df, i) : i \in Labels(df)}

min_index(df) == CHOOSE v \in IndexValues(df) : \A u \in IndexValues(df) : v <= u

max_index(df) == CHOOSE v \in IndexValues(df) : \A u \in IndexValues(df) : v >= u

\* The values the first run gives the widgets: every industry, the whole
\* range, no search term.
Defaults(df) ==
  [shown |-> TRUE, sel |-> Industries(df),
   range |-> <<min_index(df), max_index(df)>>, term |-> <<>>]

\* Mutant of Copy: the filter starts from the view of the run before.
CopyOfLastView(df) ==
  IF outcome \in {"shown", "table_error"} THEN filtered
  ELSE [i \in Labels(df) |-> i]

\* df.copy(): every row, in the order of the dataset.
Copy(df) == [i \in Labels(df) |-> i]

\* Mutant of IndustryFilter: isin() applied also to an empty selection.
IndustryFilterAlways(df, view, sel) ==
  LET Keep(i) == df.rows[i][IndustryCol] \in sel
  IN SelectSeq(view, Keep)

\* if selected_industries: filtered_df[filtered_df['industry'].isin(...)]
IndustryFilter(df, view, sel) ==
  LET Keep(i) == df.rows[i][IndustryCol] \in sel
  IN IF sel # {} THEN SelectSeq(view, Keep) ELSE view

\* Mutant of RangeFilter: strict comparisons.
RangeFilterExclusive(df, view, range) ==
  LET Keep(i) == IndexOf(df, i) > range[1] /\ IndexOf(df, i) < range[2]
  IN SelectSeq(view, Keep)

\* (index >= index_range[0]) & (index <= index_range[1])
RangeFilter(df, view, range) ==
  LET Keep(i) == IndexOf(df, i) >= range[1] /\ IndexOf(df, i) <= range[2]
  IN SelectSeq(view, Keep)

\* The search raises when the sheet has no stock-code column (KeyError) and
\* when the term is not a regular expression (re.error).
SearchRaises(df, term) ==
  term # <<>> /\ (CodeCol \notin df.columns \/ ~RegexValid(term))

\* if search_term: code.str.contains(term, case=False) | name.str.contains(...)
SearchFilter(df, view, term) ==
  LET Keep(i) == \/ StrContains(df.rows[i][CodeCol], term)
                 \/ StrContains(df.rows[i][NameCol], term)
  IN IF term # <<>> THEN SelectSeq(view, Keep) ELSE view

\* filtered_df[[code, name, industry, index, total]] raises a KeyError when
\* the sheet lacks one of these columns.
TableRaises(df) == CodeCol \notin df.columns \/ TotalCol \notin df.columns

\* sort_values(by=index, ascending=False) with the default kind, quicksort,
\* which is not a stable sort: every arrangement of the rows in which the
\* index never increases is a possible result.
RECURSIVE SortedOrders(_, _)
SortedOrders(df, S) ==
  IF S = {} THEN {<<>>}
  ELSE LET top == {i \in S : \A j \in S : IndexOf(df, i) >= IndexOf(df, j)}
       IN UNION {{<<i>> \o o : o \in SortedOrders(df, S \ {i})} : i \in top}

\* Mutant of sort_values: ascending, the order of the view among equals.
RECURSIVE AscendingOrder(_, _)
AscendingOrder(df, S) ==
  IF S = {} THEN <<>>
  ELSE LET i == CHOOSE x \in S :
                  \A j \in S : \/ IndexOf(df, x) < IndexOf(df, j)
                                \/ (IndexOf(df, x) = IndexOf(df, j) /\ x <= j)
       IN <<i>> \o AscendingOrder(df, S \ {i})

sort_values_ascending(df, view) ==
  {AscendingOrder(df, {view[k] : k \in 1..Len(view)})}

sort_values(df, view) == SortedOrders(df, {view[k] : k \in 1..Len(view)})

\* Mutant of head: one row short.
head_one_short(order, n) ==
  SubSeq(order, 1, IF Len(order) < n - 1 THEN Len(order) ELSE n - 1)

\* head(n)
head(order, n) == SubSeq(order, 1, IF Len(order) < n THEN Len(order) ELSE n)

\* Mutant of Warned: the return is missing, and the run goes on into the
\* sidebar code, which fails on a dataset without columns.
WarnedWithoutReturn(c, w) ==
  {[widgets |-> w, outcome |-> "sidebar_error", filtered |-> <<>>,
    top10 |-> <<>>,
    rendered |-> {"title", c.message, "warning", "exception"}]}

\* if df.empty: st.warning(...); return
Warned(c, w) ==
  {[widgets |-> w, outcome |-> "warned", filtered |-> <<>>, top10 |-> <<>>,
    rendered |-> {"title", c.message, "warning"}]}

\* The rest of main(): the sidebar, the filter, the table, the histogram
\* and the ranked table.
Display(c, w) ==
    LET df == c.df
        ww == IF w.shown THEN w ELSE Defaults(df)
        byIndustry == IndustryFilter(df, Copy(df), ww.sel)
        byRange == RangeFilter(df, byIndustry, ww.range)
    IN IF SearchRaises(df, ww.term)
       THEN {[widgets |-> ww, outcome |-> "search_error", filtered |-> <<>>,
              top10 |-> <<>>,
              rendered |-> {"title", c.message, "filters", "exception"}]}
       ELSE
         LET filtered_df == SearchFilter(df, byRange, ww.term)
         IN IF TableRaises(df)
            THEN {[widgets |-> ww, outcome |-> "table_error",
                   filtered |-> filtered_df, top10 |-> <<>>,
                   rendered |-> {"title", c.message, "filters", "count",
                                 "exception"}]}
            ELSE {[widgets |-> ww, outcome |-> "shown",
                   filtered |-> filtered_df, top10 |-> head(o, TopN),
                   rendered |-> {"title", c.message, "filters", "count",
                                 "table", "histogram", "top10"}]
                  : o \in sort_values(df, filtered_df)}

\* One run of main() on the dataset the cached call returned, with the
\* widget values w of the session: the possible results of the run.
main(c, w) == IF IsEmpty(c.df) THEN Warned(c, w) ELSE Display(c, w)


----------------------------------------------------------------------------
(* The inputs: spreadsheets, and what the user can enter                   *)

MkRow(code, name, f, total) ==
  [c \in FileColumns |->
     IF c = CodeCol THEN code
     ELSE IF c = NameCol THEN name
     ELSE IF c = TotalCol THEN total
     ELSE f[CHOOSE k \in 1..Len(Techs) : Techs[k] = c]]

Sheet(rows) == [readable |-> TRUE, columns |-> FileColumns, rows |-> rows]

\* A sheet that cannot be read at all.
Corrupt(file) == [file EXCEPT !.readable = FALSE]

\* A sheet without the column col.
Drop(file, col) ==
  [file EXCEPT !.columns = @ \ {col},
               !.rows = [i \in 1..Len(file.rows) |->
                           [c \in file.columns \ {col} |-> file.rows[i][c]]]]

SeqsUpTo(S, n) == UNION {[1..k -> S] : k \in 0..n}

\* Generated company names: characters from which keywords of several
\* industries can be formed, also overlapping ones.
NameChars == {"jiao", "tong", "xin", "sheng", "wu", "liu"}

GenNames == SeqsUpTo(NameChars, MaxNameLen) \ {<<>>}

FreqVectors == [1..Len(Techs) -> 0..MaxFreq]

\* Hand-picked rows: a bank, a bank that sells software, a company with no
\* keyword in its name and the same counts as the bank, a real-estate
\* company with no counts at all.
RowPool ==
  { MkRow(<<"6","0">>, <<"A","yin","hang">>, <<10,5,8,4,6>>, 100),
    MkRow(<<"0","6">>, <<"yin","hang","ruan","jian">>, <<1,0,0,0,0>>, 7),
    MkRow(<<"0","0">>, <<"wan","ke">>, <<10,5,8,4,6>>, 60),
    MkRow(<<"6","a">>, <<"di","chan">>, <<0,0,0,0,0>>, 0) }

SmallFiles == {Sheet(rows) : rows \in SeqsUpTo(RowPool, MaxRows)}

BaseSheet ==
  Sheet(<< MkRow(<<"6","0">>, <<"A","yin","hang">>, <<10,5,8,4,6>>, 100),
           MkRow(<<"6","a">>, <<"di","chan">>, <<0,0,0,0,0>>, 0) >>)

\* Sheets for the loader: one row with a generated name, one row with
\* generated counts, and the sheets the loader or main() cannot use.
LoadFiles ==
  {Sheet(<<MkRow(<<"6","0">>, n, <<10,5,8,4,6>>, 100)>>) : n \in GenNames}
  \cup {Sheet(<<MkRow(<<"6","0">>, <<"A","yin","hang">>, f, t)>>)
          : f \in FreqVectors, t \in {0, 7}}
  \cup {Sheet(<<>>), Corrupt(BaseSheet)}
  \cup {Drop(BaseSheet, col) : col \in FileColumns}

\* Row i of the large sheets: rows 1, 2 and rows 3, 4 have the same counts,
\* the later rows have counts of their own.
BigRow(i) ==
  MkRow(IF i % 2 = 1 THEN <<"6","0">> ELSE <<"0","a">>,
        IF i % 3 = 1 THEN <<"A","yin","hang">>
        ELSE IF i % 3 = 2 THEN <<"ruan","jian">> ELSE <<"wan","ke">>,
        <<IF i <= 4 THEN (i + 1) \div 2 ELSE i - 2, 0, 0, 0, 0>>,
        i)

BigFiles == {Sheet([i \in 1..n |-> BigRow(i)]) : n \in TopN..(TopN + BigExtra)}

\* What the user types into the search box.
SearchTerms ==
  { <<>>, <<"a">>, <<"A">>, <<"6">>, <<"0","6">>, <<".">>, <<"6",".">>,
    <<"(">>, <<"a","|","c">> }

\* The positions the user gives the slider's handles: index values of the
\* dataset, the StopsPerEnd lowest and the StopsPerEnd highest.
SliderStops(df) ==
  {v \in IndexValues(df) :
     \/ Cardinality({u \in IndexValues(df) : u < v}) < StopsPerEnd
     \/ Cardinality({u \in IndexValues(df) : u > v}) < StopsPerEnd}

----------------------------------------------------------------------------
(* The state machine                                                       *)

NoCache == [loaded |-> FALSE, df |-> EmptyDataFrame, message |-> "none"]

NoWidgets == [shown |-> FALSE, sel |-> {}, range |-> <<0, 0>>, term |-> <<>>]

InitWith(files) ==
  /\ disk \in [present : BOOLEAN, file : files]
  /\ cache = NoCache
  /\ loads = 0
  /\ widgets = NoWidgets
  /\ outcome = "none"
  /\ filtered = <<>>
  /\ top10 = <<>>
  /\ rendered = {}
  /\ firstView = [set |-> FALSE, widgets |-> NoWidgets, filtered |-> <<>>]

\* The filter and the outputs: small sheets of hand-picked rows, and sheets
\* with more rows than the ranked table shows.
Init == InitWith(SmallFiles \cup BigFiles)

\* The loader: generated names and counts, and sheets it cannot use.
InitLoad == InitWith(LoadFiles)

\* One run of the script with the widget values w.
Run(w) ==
  LET call == CachedCall(cache, disk)
  IN /\ cache' = call.entry
     /\ loads' = IF call.ran THEN loads + 1 ELSE loads
     /\ \E r \in main(call.entry, w) :
          /\ widgets' = r.widgets
          /\ outcome' = r.outcome
          /\ filtered' = r.filtered
          /\ top10' = r.top10
          /\ rendered' = r.rendered
          /\ firstView' =
               IF ~firstView.set /\ r.outcome \in {"shown", "table_error"}
                 THEN [set |-> TRUE, widgets |-> r.widgets,
                       filtered |-> r.filtered]
                 ELSE firstView
     /\ UNCHANGED disk

\* The page is opened or refreshed: the widgets keep their values.
Rerun == Run(widgets)

\* The user changes the industry multiselect.
SelectIndustries ==
  /\ widgets.shown
  /\ \E S \in SUBSET Industries(cache.df) :
       S # widgets.sel /\ Run([widgets EXCEPT !.sel = S])

\* The user moves a handle of the range slider.
MoveSlider ==
  /\ widgets.shown
  /\ \E lo \in SliderStops(cache.df), hi \in SliderStops(cache.df) :
       /\ lo <= hi
       /\ <<lo, hi>> # widgets.range
       /\ Run([widgets EXCEPT !.range = <<lo, hi>>])

\* The user enters a search term.
TypeSearch ==
  /\ widgets.shown
  /\ \E t \in SearchTerms :
       t # widgets.term /\ Run([widgets EXCEPT !.term = t])

\* Outside the program: the spreadsheet is put at, or removed from, the
\* configured path.
FileChange ==
  /\ disk' = [disk EXCEPT !.present = ~@]
  /\ UNCHANGED <<cache, loads, widgets, outcome, filtered, top10, rendered,
                 firstView>>

Next == Rerun \/ SelectIndustries \/ MoveSlider \/ TypeSearch \/ FileChange

Spec == Init /\ [][Next]_vars

SpecLoad == InitLoad /\ [][Next]_vars


----------------------------------------------------------------------------
(* Vocabulary of the properties                                            *)

\* The last run got as far as filtered_df.
HasView == outcome \in {"shown", "table_error"}

Members(view) == {view[k] : k \in 1..Len(view)}

PositionIn(view, i) == CHOOSE k \in 1..Len(view) : view[k] = i

\* view keeps rows of the dataset, each once, in the order of the dataset.
IsSubsequenceOfDataset(view, df) ==
  /\ \A k \in 1..Len(view) : view[k] \in Labels(df)
  /\ \A k \in 1..(Len(view) - 1) : view[k] < view[k + 1]

\* word occurs in text as a substring, the case of letters ignored.
Occurs(word, text) ==
  \E off \in 0..(Len(text) - Len(word)) :
     \A i \in 1..Len(word) : Lower(word[i]) = Lower(text[off + i])

\* The row passes the industry step of the filter, as main() applies it.
PassesIndustry(df, i, w) == w.sel = {} \/ df.rows[i][IndustryCol] \in w.sel

\* The row passes the range step of the filter.
PassesRange(df, i, w) ==
  w.range[1] <= IndexOf(df, i) /\ IndexOf(df, i) <= w.range[2]

\* The row passes the search step of the filter, as main() applies it.
PassesSearch(df, i, w) ==
  \/ w.term = <<>>
  \/ StrContains(df.rows[i][CodeCol], w.term)
  \/ StrContains(df.rows[i][NameCol], w.term)

\* The positions in INDUSTRY_MAPPING of the industries with a keyword that
\* occurs in the name.
MatchingIndustries(name) ==
  {k \in 1..Len(INDUSTRY_MAPPING) :
     \E j \in 1..Len(INDUSTRY_MAPPING[k].keywords) :
        Occurs(INDUSTRY_MAPPING[k].keywords[j], name)}

ElevenLabels ==
  {INDUSTRY_MAPPING[k].industry : k \in 1..Len(INDUSTRY_MAPPING)} \cup {Other}

CountWith(df, S, v) == Cardinality({i \in S : IndexOf(df, i) = v})

CountAbove(df, S, v) == Cardinality({i \in S : IndexOf(df, i) > v})

Min(a, b) == IF a < b THEN a ELSE b

Max(a, b) == IF a > b THEN a ELSE b

----------------------------------------------------------------------------
(* C1 *)

\* C1 as stated: with no industry selected the filtered view has no rows.
\* The code skips the industry step when the selection is empty, so this
\* fails.
C1_EmptySelectionShowsNothing ==
  (HasView /\ widgets.sel = {}) => filtered = <<>>

\* C1, amended: with no industry selected the industry step is skipped, and
\* the filtered view is exactly the rows of the dataset, in its order, that
\* pass the range and the search steps (an empty selection acts as 'all
\* industries').
C1_EmptySelectionSkipsIndustryStep ==
  (HasView /\ widgets.sel = {}) =>
     /\ IsSubsequenceOfDataset(filtered, cache.df)
     /\ \A i \in Labels(cache.df) :
          i \in Members(filtered) <=>
             PassesRange(cache.df, i, widgets) /\ PassesSearch(cache.df, i, widgets)

C1_Witness ==
  /\ outcome = "shown"
  /\ widgets.sel = {}
  /\ Len(filtered) >= 2
  /\ Len(filtered) < Len(cache.df.rows)

----------------------------------------------------------------------------
(* C2 *)

\* C2: the index of every loaded row is the weighted sum of its five
\* frequency counts, in hundredths 30*AI + 10*blockchain + 25*big data +
\* 15*cloud + 20*digital application; the total word count has no part in it.
C2_IndexIsWeightedSum ==
  cache.loaded =>
    \A i \in Labels(cache.df) :
       LET row == cache.df.rows[i]
       IN row[IndexCol] = 30 * row["AI"] + 10 * row["Blockchain"]
                          + 25 * row["BigData"] + 15 * row["Cloud"]
                          + 20 * row["DigitalApplication"]

C2_Witness ==
  /\ cache.loaded
  /\ TotalCol \in cache.df.columns
  /\ \E i \in Labels(cache.df) :
        /\ \A k \in 1..Len(Techs) : cache.df.rows[i][Techs[k]] >= 1
        /\ cache.df.rows[i][TotalCol] > 0
        /\ cache.df.rows[i][IndexCol] = 100

----------------------------------------------------------------------------
(* C3 *)

\* C3: the label of every loaded row is the industry that comes last in
\* INDUSTRY_MAPPING among those with a keyword occurring in the company
\* name, and Other when there is none; it is one of the eleven labels.
C3_LabelIsLastMatch ==
  cache.loaded =>
    \A i \in Labels(cache.df) :
       LET m == MatchingIndustries(cache.df.rows[i][NameCol])
           label == cache.df.rows[i][IndustryCol]
       IN /\ label \in ElevenLabels
          /\ m = {} => label = Other
          /\ m # {} =>
               label = INDUSTRY_MAPPING[CHOOSE k \in m : \A j \in m : j <= k].industry

\* A name with keywords of two industries, the earlier industry's keyword
\* standing later in the name.
C3_Witness ==
  /\ cache.loaded
  /\ \E i \in Labels(cache.df) :
        LET name == cache.df.rows[i][NameCol]
        IN /\ MatchingIndustries(name) = {4, 7}
           /\ Occurs(<<"sheng","wu","liu">>, name)
           /\ cache.df.rows[i][IndustryCol] = "Healthcare"


----------------------------------------------------------------------------
(* C4 *)

\* C4: a row that passes the industry and the search steps and whose index
\* is exactly the lower or exactly the upper bound of the slider is in the
\* filtered view; a row whose index is below the lower or above the upper
\* bound is not.
C4_RangeIsInclusive ==
  HasView =>
    \A i \in Labels(cache.df) :
       LET x == IndexOf(cache.df, i)
       IN /\ ( /\ PassesIndustry(cache.df, i, widgets)
               /\ PassesSearch(cache.df, i, widgets)
               /\ (x = widgets.range[1] \/ x = widgets.range[2]) )
             => i \in Members(filtered)
          /\ (x < widgets.range[1] \/ x > widgets.range[2])
             => i \notin Members(filtered)

\* Rows at both bounds are kept, a row below and a row above are left out.
C4_Witness ==
  /\ outcome = "shown"
  /\ widgets.range[1] < widgets.range[2]
  /\ \E i \in Members(filtered) : IndexOf(cache.df, i) = widgets.range[1]
  /\ \E i \in Members(filtered) : IndexOf(cache.df, i) = widgets.range[2]
  /\ \E i \in Labels(cache.df) : IndexOf(cache.df, i) < widgets.range[1]
  /\ \E i \in Labels(cache.df) : IndexOf(cache.df, i) > widgets.range[2]

----------------------------------------------------------------------------
(* C5 *)

\* C5 as stated: with a search term, a row that passes the industry and the
\* range steps is kept exactly when the term occurs, case ignored, as a
\* substring of its stock code or of its company name; with no term the
\* search removes no row.  The code hands the term to str.contains as a
\* regular expression, so this fails for a term such as "." .
C5_SearchIsSubstringMatch ==
  HasView =>
    \A i \in Labels(cache.df) :
       (PassesIndustry(cache.df, i, widgets) /\ PassesRange(cache.df, i, widgets))
       => ( i \in Members(filtered) <=>
              \/ widgets.term = <<>>
              \/ Occurs(widgets.term, cache.df.rows[i][CodeCol])
              \/ Occurs(widgets.term, cache.df.rows[i][NameCol]) )

----------------------------------------------------------------------------
(* C6 *)

\* C6: a run never changes the cached dataset; every filtered view keeps
\* rows of the cached dataset in their original order; and a run with the
\* widget values of an earlier run (the run before it, or the first run of
\* the session) produces the filtered view that run produced.
C6_FilterIsPureAndStable ==
  [][ /\ cache.loaded => cache' = cache
      /\ HasView' => IsSubsequenceOfDataset(filtered', cache'.df)
      /\ (HasView /\ HasView' /\ widgets' = widgets) => filtered' = filtered
      /\ (HasView' /\ firstView'.set /\ widgets' = firstView'.widgets)
           => filtered' = firstView'.filtered ]_vars

\* After the first run the widgets were changed, and the view keeps some
\* rows of the dataset and skips a row between two it keeps.
C6_Witness ==
  /\ outcome = "shown"
  /\ firstView.set
  /\ widgets # firstView.widgets
  /\ Len(filtered) >= 2
  /\ Len(filtered) < Len(cache.df.rows)
  /\ \E k \in 1..(Len(filtered) - 1) : filtered[k + 1] > filtered[k] + 1

----------------------------------------------------------------------------
(* C7 *)

\* C7: when the body of load_and_calculate_index runs and the file is
\* missing, unreadable, or lacks a frequency column or the name column, it
\* returns the empty dataset with an error message, and main() shows the
\* warning and stops: nothing but the title, the error and the warning is
\* on the page; and in every run on a failed load the page has no filter
\* controls, table, histogram or ranked table.
C7_LoadFailureStops ==
  [][ /\ ( /\ ~cache.loaded
           /\ cache'.loaded
           /\ \/ ~disk.present
              \/ ~disk.file.readable
              \/ NameCol \notin disk.file.columns
              \/ \E k \in 1..Len(Techs) : Techs[k] \notin disk.file.columns )
         => /\ cache'.df = EmptyDataFrame
            /\ cache'.message \in {"error_missing", "error_failed"}
            /\ ~disk.present => cache'.message = "error_missing"
            /\ outcome' = "warned"
            /\ rendered' = {"title", cache'.message, "warning"}
      /\ (cache'.loaded /\ cache'.message # "success")
         => /\ "warning" \in rendered'
            /\ rendered' \cap {"filters", "count", "table", "histogram",
                               "top10", "exception"} = {} ]_vars

\* A sheet that is there and readable but lacks a frequency column was
\* loaded, and the run stopped at the warning.
C7_Witness ==
  /\ cache.loaded
  /\ cache.message = "error_failed"
  /\ disk.file.readable
  /\ Len(disk.file.rows) > 0
  /\ "AI" \notin disk.file.columns
  /\ outcome = "warned"


----------------------------------------------------------------------------
(* C8 *)

\* C8: the ranked table has min(10, n) rows, n the number of rows of the
\* filtered view; each is a row of the filtered view, none twice; the index
\* never increases down the table; and no row left out has a greater index
\* than a row in the table.
C8_Top10IsTheLargest ==
  outcome = "shown" =>
    /\ Len(top10) = Min(TopN, Len(filtered))
    /\ Members(top10) \subseteq Members(filtered)
    /\ Cardinality(Members(top10)) = Len(top10)
    /\ \A k \in 1..(Len(top10) - 1) :
          IndexOf(cache.df, top10[k]) >= IndexOf(cache.df, top10[k + 1])
    /\ \A i \in Members(filtered) \ Members(top10) :
          \A j \in Members(top10) : IndexOf(cache.df, i) <= IndexOf(cache.df, j)

\* More than ten rows in the view, with rows of a lower index left out.
C8_Witness ==
  /\ outcome = "shown"
  /\ Len(filtered) > TopN
  /\ Len(top10) = TopN
  /\ \E i \in Members(filtered) \ Members(top10) :
        IndexOf(cache.df, i) < IndexOf(cache.df, top10[TopN])
  /\ top10[1] # filtered[1]

----------------------------------------------------------------------------
(* C9 *)

\* C9: the body of load_and_calculate_index runs at most once; once there
\* is a cached result no run changes it or runs the body again; and after a
\* failed load every run ends at the warning, with the empty dataset,
\* whether or not the file is at its path by then.
C9_LoadedOnceAndKept ==
  [][ /\ loads' <= 1
      /\ cache.loaded => (cache' = cache /\ loads' = loads)
      /\ (cache.loaded /\ cache.message # "success" /\ disk' = disk)
           => (outcome' = "warned" /\ IsEmpty(cache'.df)
               /\ "warning" \in rendered') ]_vars

\* The load failed because the file was missing; the file, a usable one, is
\* at its path now, and the page still shows the warning.
C9_Witness ==
  /\ cache.loaded
  /\ loads = 1
  /\ cache.message = "error_missing"
  /\ disk.present
  /\ ~Raises(disk.file)
  /\ outcome = "warned"

----------------------------------------------------------------------------
(* C10 *)

\* C10 as stated: rows of equal index stand in the ranked table in the order
\* they have in the filtered view, and of rows of equal index on both sides
\* of the cut-off the ones kept are the ones that come first in the view.
\* sort_values uses its default, unstable sort, so this fails.
C10_TiesKeepViewOrder ==
  outcome = "shown" =>
    /\ \A a \in 1..Len(top10) : \A b \in (a + 1)..Len(top10) :
          IndexOf(cache.df, top10[a]) = IndexOf(cache.df, top10[b])
            => PositionIn(filtered, top10[a]) < PositionIn(filtered, top10[b])
    /\ \A i \in Members(top10) : \A j \in Members(filtered) \ Members(top10) :
          IndexOf(cache.df, i) = IndexOf(cache.df, j)
            => PositionIn(filtered, i) < PositionIn(filtered, j)

\* C10, amended: the order among rows of equal index is not fixed, and
\* neither is which rows of a tie at the cut-off are kept; what is fixed is
\* how many rows of each index value the ranked table has: all of them if
\* they fit after the rows of greater index, else as many as fit.
C10_TiesAreCountedNotOrdered ==
  outcome = "shown" =>
    \A i \in Members(filtered) :
       LET v == IndexOf(cache.df, i)
       IN CountWith(cache.df, Members(top10), v)
            = Min(CountWith(cache.df, Members(filtered), v),
                  Max(0, TopN - CountAbove(cache.df, Members(filtered), v)))

\* A tie on both sides of the cut-off, the row kept coming later in the
\* view than the row left out.
C10_Witness ==
  /\ outcome = "shown"
  /\ Len(filtered) > TopN
  /\ \E i \in Members(top10) : \E j \in Members(filtered) \ Members(top10) :
        /\ IndexOf(cache.df, i) = IndexOf(cache.df, j)
        /\ PositionIn(filtered, j) < PositionIn(filtered, i)

====
